---- MODULE Spec2Model ----
(***************************************************************************)
(* A model of billing/models.py: the Account / Invoice state machines      *)
(* (django_fsm transitions on in-memory instances, persisted by save()),   *)
(* the Charge and Transaction ledger, and the multi-currency aggregation   *)
(* (total_amount, Account.balance, ChargeManager.uninvoiced_with_total).   *)
(*                                                                         *)
(* Database rows live in accountDb, invoiceDb, chargeDb and txnDb.  Each   *)
(* process of Procs is one request/worker: it holds at most one loaded     *)
(* model instance (inst), one running balance() call (bal) and one running *)
(* invoicing attempt (job).  Django runs every ORM statement on its own    *)
(* (autocommit), so each query and each save() is one atomic step.         *)
(***************************************************************************)
EXTENDS Integers, Sequences, FiniteSets, TLC

VARIABLES
    accountDb,   \* account id -> NoRow | [account, status]
    invoiceDb,   \* invoice id -> NoRow | Deleted | [account, status]
    chargeDb,    \* sequence of charge rows [account, amount, currency, created, invoice]
    txnDb,       \* sequence of transaction rows [account, amount, currency, created, success]
    cardDb,      \* card id -> NoCard | [account, expiry_month, expiry_year, expiry_date, status]
    now,         \* the clock behind auto_now_add
    inst,        \* process -> NoInst | the model instance it has loaded
    bal,         \* process -> state of its Account.balance() call
    job,         \* process -> state of its invoicing attempt
    assigned,    \* history: every write <<charge, invoice>> made to a Charge.invoice
    last         \* history: the operation of the latest step and its outcome

vars == <<accountDb, invoiceDb, chargeDb, txnDb, cardDb, now, inst, bal, job, assigned, last>>

----------------------------------------------------------------------------
(* Bounds of the model.                                                    *)

MaxInvoices == 2
MaxRecords == 3
MaxTime == 1

Procs == {"p1", "p2"}
AccountIds == {"a1", "a2"}
InvoiceIds == 1 .. MaxInvoices
CardIds == {"k1", "k2"}
Currencies == {"USD", "EUR"}
\* Signed Money values a charge or a transaction may carry (amount, currency).
Monies == { [amount |-> 10, currency |-> "USD"],
            [amount |-> -3, currency |-> "USD"],
            [amount |-> 5,  currency |-> "EUR"] }
\* The Money value of the charges that concurrent invoicing attempts race for.
InvoicingMonies == { [amount |-> 10, currency |-> "USD"] }
\* The Money values drawn when the ledger is built up over time.
LedgerMonies == { [amount |-> 10, currency |-> "USD"],
                  [amount |-> -3, currency |-> "EUR"] }

----------------------------------------------------------------------------
(* Status values (Account.STATUS_CHOICES, Invoice.STATUS_CHOICES).         *)

OPEN == "OPEN"
CLOSED == "CLOSED"
PENDING == "PENDING"
PAST_DUE == "PAST_DUE"
PAYED == "PAYED"
CANCELLED == "CANCELLED"
ACTIVE == "ACTIVE"
INACTIVE == "INACTIVE"

AccountStatuses == {OPEN, CLOSED}
InvoiceStatuses == {PENDING, PAST_DUE, PAYED, CANCELLED}

\* A primary key never used, a deleted row, an empty instance slot, a NULL.
NoRow == [account |-> "none", status |-> "NoRow"]
Deleted == [account |-> "none", status |-> "Deleted"]
NoInst == [kind |-> "none", id |-> 0, status |-> "none"]
NoCard == [account |-> "none", expiry_month |-> 0, expiry_year |-> 0,
           expiry_date |-> 0, status |-> "NoRow"]
Null == 0
\* as_of = None, the default of Account.balance.
NoAsOf == -1

IsRow(r) == r # NoRow /\ r # Deleted

----------------------------------------------------------------------------
(* django_fsm: a @transition(field, source, target) method called on an    *)
(* instance whose field holds `state`.  From a state outside `sources` it  *)
(* raises TransitionNotAllowed and leaves the field alone; otherwise the   *)
(* (empty) method body runs and the field is set to `target`.  Nothing is  *)
(* written to the database until save().                                   *)

Transition(sources, target, state) ==
    IF state \in sources
    THEN [ok |-> TRUE, state |-> target]
    ELSE [ok |-> FALSE, state |-> state]

\* close() with CLOSED wrongly listed among its sources.
Account_close_wrong(state) == Transition({OPEN, CLOSED}, CLOSED, state)

Account_close(state) == Transition({OPEN}, CLOSED, state)

Account_reopen(state) == Transition({CLOSED}, OPEN, state)

\* mark_past_due() with PAST_DUE wrongly listed among its sources.
Invoice_mark_past_due_wrong(state) == Transition({PENDING, PAST_DUE}, PAST_DUE, state)

Invoice_mark_past_due(state) == Transition({PENDING}, PAST_DUE, state)

Invoice_pay(state) == Transition({PENDING, PAST_DUE}, PAYED, state)

\* cancel() with PAYED wrongly listed among its sources.
Invoice_cancel_wrong(state) == Transition({PENDING, PAST_DUE, PAYED}, CANCELLED, state)

Invoice_cancel(state) == Transition({PENDING, PAST_DUE}, CANCELLED, state)

----------------------------------------------------------------------------
(* Money aggregation.  A queryset is a table (a sequence of rows) together *)
(* with the set of row numbers its filters select.                         *)

RECURSIVE SumAmounts(_, _)
\* Sum('amount') over the rows `ids` of `table`.
SumAmounts(table, ids) ==
    IF ids = {} THEN 0
    ELSE LET i == CHOOSE x \in ids : TRUE
         IN  table[i].amount + SumAmounts(table, ids \ {i})

\* qs.values('amount_currency').annotate(sum=Sum('amount')): one row per
\* currency that occurs in the queryset, with the sum of that currency's amounts.
Aggregate(table, ids) ==
    { [amount_currency |-> c,
       sum |-> SumAmounts(table, {i \in ids : table[i].currency = c})] :
      c \in {table[i].currency : i \in ids} }

\* A Total with no entry.
EmptyTotal == [c \in {} |-> 0]

RECURSIVE MoneySum(_)
MoneySum(monies) ==
    IF monies = {} THEN 0
    ELSE LET m == CHOOSE x \in monies : TRUE
         IN  m.amount + MoneySum(monies \ {m})

\* Total(monies): a mapping currency -> summed amount, one entry per currency
\* that occurs among the Money values, built by adding them up.  The aggregate
\* hands it one Money per currency, so a set holds its argument without loss.
Total(monies) ==
    [c \in {m.currency : m \in monies} |-> MoneySum({m \in monies : m.currency = c})]

\* The amount a Total holds in currency c (none: zero).
TotalGet(t, c) == IF c \in DOMAIN t THEN t[c] ELSE 0

\* Total - Total: per currency, over the currencies of either operand.
TotalSub(t, u) ==
    [c \in (DOMAIN t) \cup (DOMAIN u) |-> TotalGet(t, c) - TotalGet(u, c)]

\* total_amount without the grouping by currency: one sum over every row.
total_amount_merged(table, ids) ==
    IF ids = {} THEN EmptyTotal
    ELSE [c \in {table[CHOOSE i \in ids : TRUE].currency} |-> SumAmounts(table, ids)]

total_amount(table, ids) ==
    Total({ [amount |-> r.sum, currency |-> r.amount_currency] : r \in Aggregate(table, ids) })

----------------------------------------------------------------------------
(* Initial values shared by the specifications.                            *)

IdleBal == [pc |-> "idle", account |-> "a1", asOf |-> NoAsOf,
            txTotal |-> EmptyTotal, seen |-> {}]
IdleJob == [pc |-> "idle", account |-> "a1", list |-> {}, invoice |-> Null]

\* The latest operation: its name, its caller, whether it succeeded, and the
\* Total it returned (EmptyTotal when it returns none).
Ret(name, p, ok, value) == [op |-> name, proc |-> p, ok |-> ok, value |-> value]
Op(name, p, ok) == Ret(name, p, ok, EmptyTotal)
NoOp == Op("none", "none", TRUE)

InitCommon ==
    /\ invoiceDb = [i \in InvoiceIds |-> NoRow]
    /\ chargeDb = <<>>
    /\ txnDb = <<>>
    /\ cardDb = [k \in CardIds |-> NoCard]
    /\ now = 0
    /\ inst = [p \in Procs |-> NoInst]
    /\ bal = [p \in Procs |-> IdleBal]
    /\ job = [p \in Procs |-> IdleJob]
    /\ assigned = {}
    /\ last = NoOp

----------------------------------------------------------------------------
(* Invoices: creation, loading, the three transitions, save().             *)

NextInvoiceId == CHOOSE i \in InvoiceIds : invoiceDb[i] = NoRow /\ \A j \in 1 .. (i - 1) : invoiceDb[j] # NoRow

InvoiceIdLeft == \E i \in InvoiceIds : invoiceDb[i] = NoRow

\* Invoice.objects.create(account=a): status takes its default, PENDING.
NewInvoice(a) == [account |-> a, status |-> PENDING]

InvoiceCreate(a) ==
    /\ InvoiceIdLeft
    /\ invoiceDb' = [invoiceDb EXCEPT ![NextInvoiceId] = NewInvoice(a)]
    /\ last' = Op("invoice_create", "none", TRUE)
    /\ UNCHANGED <<cardDb, accountDb, chargeDb, txnDb, now, inst, bal, job, assigned>>

\* Invoice.objects.get(pk=i): a fresh in-memory copy of the row.
InvoiceGet(p, i) ==
    /\ inst[p].kind = "none"
    /\ IsRow(invoiceDb[i])
    /\ inst' = [inst EXCEPT ![p] = [kind |-> "invoice", id |-> i,
                                    status |-> invoiceDb[i].status]]
    /\ last' = Op("get", p, TRUE)
    /\ UNCHANGED <<cardDb, accountDb, invoiceDb, chargeDb, txnDb, now, bal, job, assigned>>

HoldsInvoice(p) == inst[p].kind = "invoice"

InvoiceCall(p, name, r) ==
    /\ inst' = [inst EXCEPT ![p].status = r.state]
    /\ last' = Op(name, p, r.ok)
    /\ UNCHANGED <<cardDb, accountDb, invoiceDb, chargeDb, txnDb, now, bal, job, assigned>>

InvoiceMarkPastDue(p) ==
    /\ HoldsInvoice(p)
    /\ InvoiceCall(p, "mark_past_due", Invoice_mark_past_due(inst[p].status))

InvoicePay(p) ==
    /\ HoldsInvoice(p)
    /\ InvoiceCall(p, "pay", Invoice_pay(inst[p].status))

InvoiceCancel(p) ==
    /\ HoldsInvoice(p)
    /\ InvoiceCall(p, "cancel", Invoice_cancel(inst[p].status))

\* Model.save(): UPDATE ... SET status = <the instance's> WHERE id = <pk>.
InvoiceSave(p) ==
    /\ HoldsInvoice(p)
    /\ IsRow(invoiceDb[inst[p].id])
    /\ invoiceDb' = [invoiceDb EXCEPT ![inst[p].id].status = inst[p].status]
    /\ last' = Op("save", p, TRUE)
    /\ UNCHANGED <<cardDb, accountDb, chargeDb, txnDb, now, inst, bal, job, assigned>>

\* The request ends and its instance is dropped.
Release(p) ==
    /\ inst[p].kind # "none"
    /\ inst' = [inst EXCEPT ![p] = NoInst]
    /\ last' = Op("release", p, TRUE)
    /\ UNCHANGED <<cardDb, accountDb, invoiceDb, chargeDb, txnDb, now, bal, job, assigned>>

\* in_payable_state answering only for a Pending invoice.
Invoice_in_payable_state_wrong(state) == state = PENDING

\* Invoice.in_payable_state: can_proceed(self.pay), whether pay() would be
\* allowed from the instance's current status.  can_proceed only looks.
Invoice_in_payable_state(state) == Invoice_pay(state).ok

\* Reading the property: the answer is recorded in last.ok.
InvoiceInPayableState(p) ==
    /\ HoldsInvoice(p)
    /\ last' = Op("in_payable_state", p, Invoice_in_payable_state(inst[p].status))
    /\ UNCHANGED <<cardDb, accountDb, invoiceDb, chargeDb, txnDb, now, inst, bal, job, assigned>>

\* has_past_due_invoices with the account filter left out.
Account_has_past_due_invoices_wrong(a) ==
    \E i \in InvoiceIds : IsRow(invoiceDb[i]) /\ invoiceDb[i].status = PAST_DUE

\* Account.has_past_due_invoices:
\* Invoice.objects.filter(account=self, status=Invoice.PAST_DUE).exists()
Account_has_past_due_invoices(a) ==
    \E i \in InvoiceIds :
        IsRow(invoiceDb[i]) /\ invoiceDb[i].account = a /\ invoiceDb[i].status = PAST_DUE

InitInvoice ==
    /\ InitCommon
    /\ accountDb = [a \in AccountIds |-> [account |-> a, status |-> OPEN]]

NextInvoice ==
    \/ \E a \in AccountIds : InvoiceCreate(a)
    \/ \E p \in Procs, i \in InvoiceIds : InvoiceGet(p, i)
    \/ \E p \in Procs : InvoiceMarkPastDue(p)
    \/ \E p \in Procs : InvoicePay(p)
    \/ \E p \in Procs : InvoiceCancel(p)
    \/ \E p \in Procs : InvoiceInPayableState(p)
    \/ \E p \in Procs : InvoiceSave(p)
    \/ \E p \in Procs : Release(p)

SpecInvoice == InitInvoice /\ [][NextInvoice]_vars

InvoiceOps == {"mark_past_due", "pay", "cancel"}

\* The sources and the target the specification gives each Invoice transition.
InvoiceSources(op) ==
    CASE op = "mark_past_due" -> {PENDING}
      [] op = "pay" -> {PENDING, PAST_DUE}
      [] op = "cancel" -> {PENDING, PAST_DUE}

InvoiceTarget(op) ==
    CASE op = "mark_past_due" -> PAST_DUE
      [] op = "pay" -> PAYED
      [] op = "cancel" -> CANCELLED

\* C1: every call of pay(), cancel() or mark_past_due() on an invoice instance
\* succeeds exactly when the instance's status is one of the operation's
\* sources (pay, cancel: Pending or PastDue; mark_past_due: Pending) and then
\* leaves the operation's target in the status; any other call fails with the
\* invalid-transition error and leaves the status as it was.
C1_InvoiceTransitions ==
    [][\A p \in Procs :
          (HoldsInvoice(p) /\ last'.proc = p /\ last'.op \in InvoiceOps) =>
              /\ last'.ok <=> inst[p].status \in InvoiceSources(last'.op)
              /\ last'.ok => inst'[p].status = InvoiceTarget(last'.op)
              /\ ~last'.ok => inst'[p].status = inst[p].status
      ]_vars

\* A mark_past_due() call has just failed on an instance that is PastDue.
C1_Witness ==
    /\ last = Op("mark_past_due", "p1", FALSE)
    /\ inst["p1"].status = PAST_DUE

\* C2: an invoice instance whose status is Payed or Cancelled keeps that
\* status through every later step, whatever transition is called on it.
C2_TerminalStatuses ==
    [][\A p \in Procs :
          (HoldsInvoice(p) /\ inst[p].status \in {PAYED, CANCELLED} /\ HoldsInvoice(p)') =>
              inst'[p].status = inst[p].status
      ]_vars

\* cancel() has just been refused on an instance that is Payed.
C2_Witness ==
    /\ last = Op("cancel", "p2", FALSE)
    /\ inst["p2"].status = PAYED

\* C3: the stored status of an invoice is never overwritten from Payed to
\* Cancelled or from Cancelled to Payed, whatever two processes working on
\* their own loaded copies do.
C3_NoTerminalOverwrite ==
    [][\A i \in InvoiceIds :
          /\ ~(invoiceDb[i].status = PAYED /\ invoiceDb'[i].status = CANCELLED)
          /\ ~(invoiceDb[i].status = CANCELLED /\ invoiceDb'[i].status = PAYED)
      ]_vars

\* C14: reading in_payable_state answers true exactly when the instance's
\* status is Pending or PastDue, and the read changes nothing: the instance,
\* the stored rows and every other part of the state are as before.
C14_InPayableStateIsPureRead ==
    [][\A p \in Procs :
          (HoldsInvoice(p) /\ last'.proc = p /\ last'.op = "in_payable_state") =>
              /\ last'.ok <=> inst[p].status \in {PENDING, PAST_DUE}
              /\ inst' = inst
              /\ <<accountDb, invoiceDb, chargeDb, txnDb, cardDb, now, bal, job, assigned>>'
                   = <<accountDb, invoiceDb, chargeDb, txnDb, cardDb, now, bal, job, assigned>>
      ]_vars

\* in_payable_state has just answered true on a PastDue instance.
C14_Witness ==
    /\ last = Op("in_payable_state", "p1", TRUE)
    /\ inst["p1"].status = PAST_DUE

\* The stored invoices of account a that are PastDue.
PastDueInvoicesOf(a) ==
    {i \in InvoiceIds : invoiceDb[i].account = a /\ invoiceDb[i].status = PAST_DUE}

\* C15: has_past_due_invoices() of an account is true exactly when at least
\* one stored invoice of that account is PastDue; the invoices of the other
\* accounts make no difference.
C15_HasPastDueInvoices ==
    \A a \in AccountIds :
        Account_has_past_due_invoices(a) <=> Cardinality(PastDueInvoicesOf(a)) >= 1

\* a2 has a stored PastDue invoice and a1 has an invoice that is not PastDue:
\* the query is true for a2 and false for a1.
C15_Witness ==
    /\ invoiceDb[1].account = "a1" /\ invoiceDb[1].status = PAYED
    /\ invoiceDb[2].account = "a2" /\ invoiceDb[2].status = PAST_DUE
    /\ Account_has_past_due_invoices("a2")
    /\ ~Account_has_past_due_invoices("a1")

----------------------------------------------------------------------------
(* Accounts: creation, loading, close(), reopen(), save().                 *)

\* Account.objects.create(...): status takes its default, OPEN.
NewAccount(a) == [account |-> a, status |-> OPEN]

AccountCreate(a) ==
    /\ accountDb[a] = NoRow
    /\ accountDb' = [accountDb EXCEPT ![a] = NewAccount(a)]
    /\ last' = Op("account_create", "none", TRUE)
    /\ UNCHANGED <<cardDb, invoiceDb, chargeDb, txnDb, now, inst, bal, job, assigned>>

AccountGet(p, a) ==
    /\ inst[p].kind = "none"
    /\ IsRow(accountDb[a])
    /\ inst' = [inst EXCEPT ![p] = [kind |-> "account", id |-> a,
                                    status |-> accountDb[a].status]]
    /\ last' = Op("get", p, TRUE)
    /\ UNCHANGED <<cardDb, accountDb, invoiceDb, chargeDb, txnDb, now, bal, job, assigned>>

HoldsAccount(p) == inst[p].kind = "account"

AccountCall(p, name, r) ==
    /\ inst' = [inst EXCEPT ![p].status = r.state]
    /\ last' = Op(name, p, r.ok)
    /\ UNCHANGED <<cardDb, accountDb, invoiceDb, chargeDb, txnDb, now, bal, job, assigned>>

\* close() that also cancels the stored Pending invoices of the account.
AccountCloseCascade(p) ==
    /\ HoldsAccount(p)
    /\ inst' = [inst EXCEPT ![p].status = Account_close(inst[p].status).state]
    /\ last' = Op("close", p, Account_close(inst[p].status).ok)
    /\ invoiceDb' = [i \in InvoiceIds |->
                       IF invoiceDb[i].account = inst[p].id /\ invoiceDb[i].status = PENDING
                       THEN [invoiceDb[i] EXCEPT !.status = CANCELLED]
                       ELSE invoiceDb[i]]
    /\ UNCHANGED <<cardDb, accountDb, chargeDb, txnDb, now, bal, job, assigned>>

AccountClose(p) ==
    /\ HoldsAccount(p)
    /\ AccountCall(p, "close", Account_close(inst[p].status))

AccountReopen(p) ==
    /\ HoldsAccount(p)
    /\ AccountCall(p, "reopen", Account_reopen(inst[p].status))

AccountSave(p) ==
    /\ HoldsAccount(p)
    /\ accountDb' = [accountDb EXCEPT ![inst[p].id].status = inst[p].status]
    /\ last' = Op("save", p, TRUE)
    /\ UNCHANGED <<cardDb, invoiceDb, chargeDb, txnDb, now, inst, bal, job, assigned>>

InitAccount ==
    /\ InitCommon
    /\ accountDb = [a \in AccountIds |-> NoRow]

NextAccount ==
    \/ \E a \in AccountIds : AccountCreate(a)
    \/ \E p \in Procs, a \in AccountIds : AccountGet(p, a)
    \/ \E p \in Procs : AccountClose(p)
    \/ \E p \in Procs : AccountReopen(p)
    \/ \E p \in Procs : AccountSave(p)
    \/ \E p \in Procs : Release(p)

SpecAccount == InitAccount /\ [][NextAccount]_vars

\* C8: close() succeeds exactly on an Open account instance and leaves it
\* Closed; reopen() succeeds exactly on a Closed one and leaves it Open; a
\* refused call leaves the status as it was; a newly created account is Open.
C8_AccountTransitions ==
    [][/\ \A p \in Procs :
            (HoldsAccount(p) /\ last'.proc = p /\ last'.op \in {"close", "reopen"}) =>
                LET src == IF last'.op = "close" THEN OPEN ELSE CLOSED
                    dst == IF last'.op = "close" THEN CLOSED ELSE OPEN
                IN  /\ last'.ok <=> inst[p].status = src
                    /\ last'.ok => inst'[p].status = dst
                    /\ ~last'.ok => inst'[p].status = inst[p].status
       /\ \A a \in AccountIds :
            (accountDb[a] = NoRow /\ accountDb'[a] # NoRow) => accountDb'[a].status = OPEN
      ]_vars

\* close() has just been refused on an instance that is already Closed.
C8_Witness ==
    /\ last = Op("close", "p1", FALSE)
    /\ inst["p1"].kind = "account"
    /\ inst["p1"].status = CLOSED

----------------------------------------------------------------------------
(* The ledger: charges, transactions and Account.balance.                  *)

AsOfs == {NoAsOf} \cup (0 .. MaxTime)

ChargeIds(charges) == DOMAIN charges

\* Transaction.objects: every row, failed ones included.
AllTransactions(txns) == DOMAIN txns

\* Transaction.successful: OnlySuccessfulTransactionsManager.get_queryset.
SuccessfulTransactions(txns) == {i \in DOMAIN txns : txns[i].success}

\* .filter(account=self), then .filter(created__lte=as_of) when as_of is given.
FilterAccount(table, ids, a, asOf) ==
    {i \in ids : /\ table[i].account = a
                 /\ (asOf # NoAsOf => table[i].created <= asOf)}

\* Account.balance on the given tables.
BalanceOf(charges, txns, a, asOf) ==
    TotalSub(total_amount(txns, FilterAccount(txns, SuccessfulTransactions(txns), a, asOf)),
             total_amount(charges, FilterAccount(charges, ChargeIds(charges), a, asOf)))

Account_balance(a, asOf) == BalanceOf(chargeDb, txnDb, a, asOf)

RecordsLeft == Len(chargeDb) + Len(txnDb) < MaxRecords

\* A running balance() call has seen every database state since it began:
\* note the balance of the state this step produces (history only).
Observe(charges, txns) ==
    [p \in Procs |->
        IF bal[p].pc = "idle" THEN bal[p]
        ELSE [bal[p] EXCEPT !.seen = @ \cup {BalanceOf(charges, txns, bal[p].account, bal[p].asOf)}]]

\* Charge.objects.create(account=a, amount=m): created is stamped by
\* auto_now_add, invoice starts NULL.
NewCharge(a, m) ==
    [account |-> a, amount |-> m.amount, currency |-> m.currency,
     created |-> now, invoice |-> Null]

ChargeCreate(a, m) ==
    /\ RecordsLeft
    /\ chargeDb' = Append(chargeDb, NewCharge(a, m))
    /\ bal' = Observe(chargeDb', txnDb)
    /\ last' = Op("charge_create", "none", TRUE)
    /\ UNCHANGED <<cardDb, accountDb, invoiceDb, txnDb, now, inst, job, assigned>>

NewTransaction(a, m, success) ==
    [account |-> a, amount |-> m.amount, currency |-> m.currency,
     created |-> now, success |-> success]

TransactionCreate(a, m, success) ==
    /\ RecordsLeft
    /\ txnDb' = Append(txnDb, NewTransaction(a, m, success))
    /\ bal' = Observe(chargeDb, txnDb')
    /\ last' = Op("transaction_create", "none", TRUE)
    /\ UNCHANGED <<cardDb, accountDb, invoiceDb, chargeDb, now, inst, job, assigned>>

\* Time passes.
Tick ==
    /\ now < MaxTime
    /\ now' = now + 1
    /\ last' = Op("tick", "none", TRUE)
    /\ UNCHANGED <<cardDb, accountDb, invoiceDb, chargeDb, txnDb, inst, bal, job, assigned>>

InitLedger ==
    /\ InitCommon
    /\ accountDb = [a \in AccountIds |-> [account |-> a, status |-> OPEN]]

NextLedger ==
    \/ \E a \in AccountIds, m \in LedgerMonies : ChargeCreate(a, m)
    \/ \E a \in AccountIds, m \in LedgerMonies, success \in BOOLEAN : TransactionCreate(a, m, success)
    \/ Tick

SpecLedger == InitLedger /\ [][NextLedger]_vars

RECURSIVE LedgerSum(_, _, _, _, _, _)
\* The sum of the amounts in currency c of the first n rows of `table` that
\* belong to account a, were created at or before asOf (any time when asOf is
\* omitted) and, with needSuccess, succeeded.
LedgerSum(table, n, a, c, asOf, needSuccess) ==
    IF n = 0 THEN 0
    ELSE LedgerSum(table, n - 1, a, c, asOf, needSuccess)
         + (IF /\ table[n].account = a
               /\ table[n].currency = c
               /\ (asOf = NoAsOf \/ table[n].created <= asOf)
               /\ (needSuccess => table[n].success)
            THEN table[n].amount ELSE 0)

\* The currencies of the rows LedgerSum counts, over both tables.
LedgerCurrencies(a, asOf) ==
    {chargeDb[i].currency : i \in {j \in DOMAIN chargeDb :
        chargeDb[j].account = a /\ (asOf = NoAsOf \/ chargeDb[j].created <= asOf)}}
    \cup
    {txnDb[i].currency : i \in {j \in DOMAIN txnDb :
        /\ txnDb[j].account = a /\ txnDb[j].success
        /\ (asOf = NoAsOf \/ txnDb[j].created <= asOf)}}

\* C5: for every account and every cutoff (or none), balance holds, for each
\* currency, the sum of the account's successful transactions created at or
\* before the cutoff minus the sum of its charges created at or before it, and
\* has entries for exactly the currencies of those records.
C5_BalanceIsTransactionsMinusCharges ==
    \A a \in AccountIds, asOf \in AsOfs :
        LET b == Account_balance(a, asOf)
        IN  /\ DOMAIN b = LedgerCurrencies(a, asOf)
            /\ \A c \in Currencies :
                  TotalGet(b, c) = LedgerSum(txnDb, Len(txnDb), a, c, asOf, TRUE)
                                   - LedgerSum(chargeDb, Len(chargeDb), a, c, asOf, FALSE)

\* a1 has a charge before the cutoff 0 and one after it, a successful payment,
\* and a2 has records too: balance(0) differs from balance().
C5_Witness ==
    /\ \E i \in DOMAIN chargeDb : chargeDb[i].account = "a1" /\ chargeDb[i].created = 0
    /\ \E i \in DOMAIN chargeDb : chargeDb[i].account = "a1" /\ chargeDb[i].created = 1
    /\ \E i \in DOMAIN txnDb : txnDb[i].account = "a1" /\ txnDb[i].success
    /\ Account_balance("a1", 0) # Account_balance("a1", NoAsOf)
    /\ Account_balance("a1", 0) = [c \in {"USD", "EUR"} |-> IF c = "USD" THEN 10 ELSE 3]

\* The transaction table without its failed rows.
OnlySucceeded(txns) == SelectSeq(txns, LAMBDA t : t.success)

\* C6: failed transactions never count: for every account and cutoff the
\* balance is the same as over the ledger with every failed transaction removed.
C6_FailedTransactionsIgnored ==
    \A a \in AccountIds, asOf \in AsOfs :
        Account_balance(a, asOf) = BalanceOf(chargeDb, OnlySucceeded(txnDb), a, asOf)

\* a1 holds a failed and a successful transaction, stored side by side.
C6_Witness ==
    /\ \E i \in DOMAIN txnDb : txnDb[i].account = "a1" /\ ~txnDb[i].success /\ txnDb[i].amount = 10
    /\ \E i \in DOMAIN txnDb : txnDb[i].account = "a1" /\ txnDb[i].success
    /\ Len(OnlySucceeded(txnDb)) < Len(txnDb)

----------------------------------------------------------------------------
(* Account.balance as it runs: `total_amount(transactions) -               *)
(* total_amount(charges)` evaluates its left operand first, and each       *)
(* total_amount runs one aggregate query.  Nothing in balance() opens a    *)
(* transaction, so other requests may commit between the two queries.      *)

\* The first query: the total of the account's successful transactions.
BalanceTransactions(p, a, asOf) ==
    /\ bal[p].pc = "idle"
    /\ bal' = [bal EXCEPT ![p] =
                 [pc |-> "charges", account |-> a, asOf |-> asOf,
                  txTotal |-> total_amount(txnDb,
                                 FilterAccount(txnDb, SuccessfulTransactions(txnDb), a, asOf)),
                  seen |-> {Account_balance(a, asOf)}]]
    /\ last' = Op("balance_begin", p, TRUE)
    /\ UNCHANGED <<cardDb, accountDb, invoiceDb, chargeDb, txnDb, now, inst, job, assigned>>

\* The second query, the subtraction and the return.
BalanceCharges(p) ==
    /\ bal[p].pc = "charges"
    /\ last' = Ret("balance", p, TRUE,
                   TotalSub(bal[p].txTotal,
                            total_amount(chargeDb,
                                FilterAccount(chargeDb, ChargeIds(chargeDb),
                                              bal[p].account, bal[p].asOf))))
    /\ bal' = [bal EXCEPT ![p] = IdleBal]
    /\ UNCHANGED <<cardDb, accountDb, invoiceDb, chargeDb, txnDb, now, inst, job, assigned>>

\* balance() only reads, so two running calls cannot affect each other: one
\* process calls it while the creations above commit around it.
Readers == {"p1"}

NextBalance ==
    \/ \E a \in AccountIds, m \in LedgerMonies : ChargeCreate(a, m)
    \/ \E a \in AccountIds, m \in LedgerMonies, success \in BOOLEAN : TransactionCreate(a, m, success)
    \/ Tick
    \/ \E p \in Readers, a \in AccountIds, asOf \in AsOfs : BalanceTransactions(p, a, asOf)
    \/ \E p \in Readers : BalanceCharges(p)

SpecBalance == InitLedger /\ [][NextBalance]_vars

\* Two Totals that hold the same amount in every currency (no entry: zero).
SameTotal(t, u) == \A c \in Currencies : TotalGet(t, c) = TotalGet(u, c)

\* C7: the value a balance() call returns is the balance of one database state
\* that existed during the call.
C7_BalanceFromOneSnapshot ==
    [][\A p \in Procs :
          (bal[p].pc = "charges" /\ bal'[p].pc = "idle") =>
              \E s \in bal[p].seen : SameTotal(last'.value, s)
      ]_vars

----------------------------------------------------------------------------
(* Invoicing: ChargeManager's queries, and an invoicing attempt that reads *)
(* the uninvoiced charges of an account, creates an invoice and stamps the *)
(* charges it read with it.                                                *)

\* The account's charges without the invoice=None filter.
AllChargesOf(charges, a) == {i \in DOMAIN charges : charges[i].account = a}

\* The uninvoiced charges without the account_id filter.
UninvoicedOfAnyAccount(charges, a) == {i \in DOMAIN charges : charges[i].invoice = Null}

\* Charge.objects.filter(invoice=None, account_id=account_id)
UninvoicedCharges(charges, a) ==
    {i \in DOMAIN charges : charges[i].invoice = Null /\ charges[i].account = a}

\* Charge.objects.uninvoiced_with_total(a): (list(uc), total_amount(uc)).
uninvoiced_with_total(a) ==
    [list |-> UninvoicedCharges(chargeDb, a),
     total |-> total_amount(chargeDb, UninvoicedCharges(chargeDb, a))]

\* Charge.objects.uninvoiced_in_currency(a, c)
uninvoiced_in_currency(a, c) ==
    {i \in UninvoicedCharges(chargeDb, a) : chargeDb[i].currency = c}

\* The attempt begins: it reads the account's uninvoiced charges.
InvoicingRead(p, a) ==
    /\ job[p].pc = "idle"
    /\ job' = [job EXCEPT ![p] = [pc |-> "read", account |-> a,
                                  list |-> uninvoiced_with_total(a).list,
                                  invoice |-> Null]]
    /\ last' = Op("uninvoiced_with_total", p, TRUE)
    /\ UNCHANGED <<cardDb, accountDb, invoiceDb, chargeDb, txnDb, now, inst, bal, assigned>>

\* It creates its own invoice for the charges it read.
InvoicingCreate(p) ==
    /\ job[p].pc = "read"
    /\ job[p].list # {}
    /\ InvoiceIdLeft
    /\ invoiceDb' = [invoiceDb EXCEPT ![NextInvoiceId] = NewInvoice(job[p].account)]
    /\ job' = [job EXCEPT ![p].pc = "stamp", ![p].invoice = NextInvoiceId]
    /\ last' = Op("invoice_create", p, TRUE)
    /\ UNCHANGED <<cardDb, accountDb, chargeDb, txnDb, now, inst, bal, assigned>>

\* An unconditional stamping update.
StampAlways(c) == TRUE

\* The condition of the stamping update: assign the invoice only where the
\* charge's invoice reference is still NULL.
StampAllowed(c) == chargeDb[c].invoice = Null

\* It stamps one charge of its list: an atomic conditional update.  Finding
\* the charge already invoiced, or its own invoice gone, ends the attempt with
\* an error and the charge untouched.
InvoicingStamp(p, c) ==
    /\ job[p].pc = "stamp"
    /\ c \in job[p].list
    /\ IF IsRow(invoiceDb[job[p].invoice]) /\ StampAllowed(c)
       THEN /\ chargeDb' = [chargeDb EXCEPT ![c].invoice = job[p].invoice]
            /\ assigned' = assigned \cup {<<c, job[p].invoice>>}
            /\ job' = [job EXCEPT ![p].list = @ \ {c}]
            /\ last' = Op("stamp", p, TRUE)
       ELSE /\ job' = [job EXCEPT ![p] = IdleJob]
            /\ last' = Op("stamp", p, FALSE)
            /\ UNCHANGED <<chargeDb, assigned>>
    /\ UNCHANGED <<cardDb, accountDb, invoiceDb, txnDb, now, inst, bal>>

\* Nothing is left to stamp (or nothing was read): the attempt ends.
InvoicingFinish(p) ==
    /\ job[p].pc \in {"read", "stamp"}
    /\ job[p].list = {}
    /\ job' = [job EXCEPT ![p] = IdleJob]
    /\ last' = Op("invoicing_done", p, TRUE)
    /\ UNCHANGED <<cardDb, accountDb, invoiceDb, chargeDb, txnDb, now, inst, bal, assigned>>

\* on_delete=SET_NULL in place of PROTECT: the deletion goes through and
\* clears the reference of every charge of the invoice.
OnDeleteSetNull(i) ==
    [allowed |-> TRUE,
     charges |-> [c \in DOMAIN chargeDb |->
                    IF chargeDb[c].invoice = i
                    THEN [chargeDb[c] EXCEPT !.invoice = Null] ELSE chargeDb[c]]]

\* Charge.invoice is on_delete=PROTECT: deleting an invoice that a charge
\* refers to is refused (ProtectedError), and no charge is ever changed by it.
Charge_invoice_on_delete(i) ==
    [allowed |-> \A c \in DOMAIN chargeDb : chargeDb[c].invoice # i,
     charges |-> chargeDb]

\* invoice.delete()
InvoiceDelete(i) ==
    /\ IsRow(invoiceDb[i])
    /\ LET r == Charge_invoice_on_delete(i)
       IN  IF r.allowed
           THEN /\ invoiceDb' = [invoiceDb EXCEPT ![i] = Deleted]
                /\ chargeDb' = r.charges
                /\ last' = Op("invoice_delete", "none", TRUE)
           ELSE /\ last' = Op("invoice_delete", "none", FALSE)
                /\ UNCHANGED <<invoiceDb, chargeDb>>
    /\ UNCHANGED <<cardDb, accountDb, txnDb, now, inst, bal, job, assigned>>

NextInvoicing ==
    \/ \E a \in AccountIds, m \in InvoicingMonies : ChargeCreate(a, m)
    \/ \E p \in Procs, a \in AccountIds : InvoicingRead(p, a)
    \/ \E p \in Procs : InvoicingCreate(p)
    \/ \E p \in Procs, c \in DOMAIN chargeDb : InvoicingStamp(p, c)
    \/ \E p \in Procs : InvoicingFinish(p)
    \/ \E i \in InvoiceIds : InvoiceDelete(i)

SpecInvoicing == InitLedger /\ [][NextInvoicing]_vars

\* C4: under concurrent invoicing attempts no charge's invoice reference is
\* written more than once, no charge is stamped by two attempts' invoices,
\* and every stamp a charge received is the invoice it holds.
C4_ChargeInvoicedOnce ==
    \A c \in DOMAIN chargeDb :
        /\ Cardinality({x \in assigned : x[1] = c}) <= 1
        /\ \A x \in assigned : x[1] = c => chargeDb[c].invoice = x[2]

\* Both attempts read charge 1 as uninvoiced; p1's invoice got it, p2 has
\* created its own invoice and still has charge 1 on its list.
C4_Witness ==
    /\ job["p2"].pc = "stamp"
    /\ 1 \in job["p2"].list
    /\ Len(chargeDb) >= 1
    /\ chargeDb[1].invoice # Null
    /\ chargeDb[1].invoice # job["p2"].invoice
    /\ <<1, chargeDb[1].invoice>> \in assigned

\* C9: a charge's invoice reference, once set, keeps its value in every later
\* step: it is never reset to NULL and never pointed at another invoice.
C9_InvoiceReferenceSetOnce ==
    [][\A c \in DOMAIN chargeDb :
          chargeDb[c].invoice # Null => chargeDb'[c].invoice = chargeDb[c].invoice
      ]_vars

\* Deleting the invoice that charge 1 refers to has just been refused.
C9_Witness ==
    /\ last = Op("invoice_delete", "none", FALSE)
    /\ Len(chargeDb) >= 1
    /\ chargeDb[1].invoice # Null

----------------------------------------------------------------------------
(* The charge queries over a ledger of mixed currencies, part of it        *)
(* invoiced by one invoicing attempt at a time.                            *)

Invoicers == {"p1"}

NextCharges ==
    \/ \E a \in AccountIds, m \in Monies : ChargeCreate(a, m)
    \/ \E p \in Invoicers, a \in AccountIds : InvoicingRead(p, a)
    \/ \E p \in Invoicers : InvoicingCreate(p)
    \/ \E p \in Invoicers, c \in DOMAIN chargeDb : InvoicingStamp(p, c)
    \/ \E p \in Invoicers : InvoicingFinish(p)

SpecCharges == InitLedger /\ [][NextCharges]_vars

RECURSIVE UninvoicedSum(_, _, _)
\* The sum of the amounts in currency c of the uninvoiced charges of account a
\* among the first n charges.
UninvoicedSum(n, a, c) ==
    IF n = 0 THEN 0
    ELSE UninvoicedSum(n - 1, a, c)
         + (IF /\ chargeDb[n].account = a
               /\ chargeDb[n].invoice = Null
               /\ chargeDb[n].currency = c
            THEN chargeDb[n].amount ELSE 0)

\* C10: uninvoiced_with_total(a) lists exactly the charges of account a whose
\* invoice reference is NULL, and its Total has one entry for each currency
\* among them and no other, holding the signed sum of that currency's amounts.
C10_UninvoicedWithTotal ==
    \A a \in AccountIds :
        LET r == uninvoiced_with_total(a)
        IN  /\ \A c \in DOMAIN chargeDb :
                  c \in r.list <=> (chargeDb[c].account = a /\ chargeDb[c].invoice = Null)
            /\ r.list \subseteq DOMAIN chargeDb
            /\ \A cur \in Currencies :
                  /\ cur \in DOMAIN r.total <=> \E c \in r.list : chargeDb[c].currency = cur
                  /\ cur \in DOMAIN r.total => r.total[cur] = UninvoicedSum(Len(chargeDb), a, cur)
            /\ DOMAIN r.total \subseteq Currencies

\* a1's uninvoiced charges are +10 USD, -3 USD and +5 EUR: the Total is
\* {USD: 7, EUR: 5}.
C10_Witness ==
    /\ Len(chargeDb) = 3
    /\ {[amount |-> chargeDb[c].amount, currency |-> chargeDb[c].currency] :
           c \in uninvoiced_with_total("a1").list} = Monies
    /\ Cardinality(uninvoiced_with_total("a1").list) = 3
    /\ uninvoiced_with_total("a1").total = [cur \in {"USD", "EUR"} |-> IF cur = "USD" THEN 7 ELSE 5]

----------------------------------------------------------------------------
(* uninvoiced_with_total as it runs: `list(uc)` runs the SELECT of the     *)
(* queryset and `total_amount(uc)` then runs a separate aggregate query    *)
(* over the same filters.  Nothing in it opens a transaction, so other     *)
(* requests may commit between the two queries.                            *)

\* The first query: list(uc).
UninvoicedList(p, a) ==
    /\ job[p].pc = "idle"
    /\ job' = [job EXCEPT ![p] = [pc |-> "listed", account |-> a,
                                  list |-> UninvoicedCharges(chargeDb, a),
                                  invoice |-> Null]]
    /\ last' = Op("uninvoiced_list", p, TRUE)
    /\ UNCHANGED <<cardDb, accountDb, invoiceDb, chargeDb, txnDb, now, inst, bal, assigned>>

\* The second query, total_amount(uc), and the return of the pair: the list
\* is job[p].list, the Total is last'.value.
UninvoicedTotal(p) ==
    /\ job[p].pc = "listed"
    /\ last' = Ret("uninvoiced_with_total", p, TRUE,
                   total_amount(chargeDb, UninvoicedCharges(chargeDb, job[p].account)))
    /\ job' = [job EXCEPT ![p] = IdleJob]
    /\ UNCHANGED <<cardDb, accountDb, invoiceDb, chargeDb, txnDb, now, inst, bal, assigned>>

\* One process calls uninvoiced_with_total while charges are created and
\* another process invoices.
Listers == {"p1"}
Stampers == {"p2"}

NextUninvoiced ==
    \/ \E a \in AccountIds, m \in LedgerMonies : ChargeCreate(a, m)
    \/ \E p \in Listers, a \in AccountIds : UninvoicedList(p, a)
    \/ \E p \in Listers : UninvoicedTotal(p)
    \/ \E p \in Stampers, a \in AccountIds : InvoicingRead(p, a)
    \/ \E p \in Stampers : InvoicingCreate(p)
    \/ \E p \in Stampers, c \in DOMAIN chargeDb : InvoicingStamp(p, c)
    \/ \E p \in Stampers : InvoicingFinish(p)

SpecUninvoiced == InitLedger /\ [][NextUninvoiced]_vars

\* C11: the Total a call of uninvoiced_with_total returns is the per-currency
\* sum of exactly the charges in the list it returns, whatever is created or
\* invoiced while the call runs.
C11_ListAndTotalOneSnapshot ==
    [][\A p \in Procs :
          (job[p].pc = "listed" /\ job'[p].pc = "idle") =>
              SameTotal(last'.value, total_amount(chargeDb, job[p].list))
      ]_vars

----------------------------------------------------------------------------
(* Credit cards: the derived expiry date, deactivate(), reactivate(),      *)
(* is_valid() and save().  A date is the number yyyymmdd, which orders     *)
(* dates as the calendar does.                                             *)

CardStatuses == {ACTIVE, INACTIVE}

\* The expiry months and two-digit years the callers use: February and
\* December of a leap year and of a common year.
ExpiryMonths == {2, 12}
ExpiryYears == {24, 25}

\* The dates is_valid is asked about.
CardAsOfs == {20240229, 20240301, 20250101}

\* date(year, month, day)
Date(year, month, day) == year * 10000 + month * 100 + day

IsLeap(year) == (year % 4 = 0 /\ year % 100 # 0) \/ year % 400 = 0

\* calendar.monthrange(year, month)[1]: the number of days of the month.
MonthRange(year, month) ==
    IF month = 2 THEN (IF IsLeap(year) THEN 29 ELSE 28)
    ELSE IF month \in {4, 6, 9, 11} THEN 30 ELSE 31

compute_expiry_date(two_digit_year, month) ==
    LET year == 2000 + two_digit_year
    IN  Date(year, month, MonthRange(year, month))

\* deactivate() with INACTIVE wrongly listed among its sources.
CreditCard_deactivate_wrong(state) == Transition({ACTIVE, INACTIVE}, INACTIVE, state)

CreditCard_deactivate(state) == Transition({ACTIVE}, INACTIVE, state)

CreditCard_reactivate(state) == Transition({INACTIVE}, ACTIVE, state)

\* CreditCard.is_valid(as_of)
CreditCard_is_valid(card, asOf) == card.expiry_date >= asOf

\* CreditCard.objects.create(account, expiry_month, expiry_year): the row is
\* written by save(), which computes expiry_date; status takes its default.
NewCard(a, m, y) ==
    [account |-> a, expiry_month |-> m, expiry_year |-> y,
     expiry_date |-> compute_expiry_date(y, m), status |-> ACTIVE]

\* A stored card, as opposed to a primary key never used.
IsCard(r) == r.status \in CardStatuses

CardCreate(k, a, m, y) ==
    /\ ~IsCard(cardDb[k])
    /\ IsRow(accountDb[a])
    /\ cardDb' = [cardDb EXCEPT ![k] = NewCard(a, m, y)]
    /\ last' = Op("card_create", "none", TRUE)
    /\ UNCHANGED <<accountDb, invoiceDb, chargeDb, txnDb, now, inst, bal, job, assigned>>

CardGet(p, k) ==
    /\ inst[p].kind = "none"
    /\ IsCard(cardDb[k])
    /\ inst' = [inst EXCEPT ![p] =
                  [kind |-> "card", id |-> k, status |-> cardDb[k].status,
                   account |-> cardDb[k].account,
                   expiry_month |-> cardDb[k].expiry_month,
                   expiry_year |-> cardDb[k].expiry_year,
                   expiry_date |-> cardDb[k].expiry_date]]
    /\ last' = Op("get", p, TRUE)
    /\ UNCHANGED <<cardDb, accountDb, invoiceDb, chargeDb, txnDb, now, bal, job, assigned>>

HoldsCard(p) == inst[p].kind = "card"

CardCall(p, name, r) ==
    /\ inst' = [inst EXCEPT ![p].status = r.state]
    /\ last' = Op(name, p, r.ok)
    /\ UNCHANGED <<cardDb, accountDb, invoiceDb, chargeDb, txnDb, now, bal, job, assigned>>

CardDeactivate(p) ==
    /\ HoldsCard(p)
    /\ CardCall(p, "deactivate", CreditCard_deactivate(inst[p].status))

CardReactivate(p) ==
    /\ HoldsCard(p)
    /\ CardCall(p, "reactivate", CreditCard_reactivate(inst[p].status))

\* card.expiry_month = m: a plain attribute assignment on the instance.
CardSetMonth(p, m) ==
    /\ HoldsCard(p)
    /\ inst' = [inst EXCEPT ![p].expiry_month = m]
    /\ last' = Op("set_expiry_month", p, TRUE)
    /\ UNCHANGED <<cardDb, accountDb, invoiceDb, chargeDb, txnDb, now, bal, job, assigned>>

\* card.expiry_year = y
CardSetYear(p, y) ==
    /\ HoldsCard(p)
    /\ inst' = [inst EXCEPT ![p].expiry_year = y]
    /\ last' = Op("set_expiry_year", p, TRUE)
    /\ UNCHANGED <<cardDb, accountDb, invoiceDb, chargeDb, txnDb, now, bal, job, assigned>>

\* card.is_valid(asOf): the answer is recorded in last.ok.
CardIsValid(p, asOf) ==
    /\ HoldsCard(p)
    /\ last' = Op("is_valid", p, CreditCard_is_valid(inst[p], asOf))
    /\ UNCHANGED <<cardDb, accountDb, invoiceDb, chargeDb, txnDb, now, inst, bal, job, assigned>>

\* card.save(): expiry_date is recomputed from the instance's month and year
\* (neither is None here), then every field is written.
CardSave(p) ==
    /\ HoldsCard(p)
    /\ LET d == compute_expiry_date(inst[p].expiry_year, inst[p].expiry_month)
       IN  /\ inst' = [inst EXCEPT ![p].expiry_date = d]
           /\ cardDb' = [cardDb EXCEPT ![inst[p].id] =
                           [account |-> inst[p].account,
                            expiry_month |-> inst[p].expiry_month,
                            expiry_year |-> inst[p].expiry_year,
                            expiry_date |-> d,
                            status |-> inst[p].status]]
    /\ last' = Op("save", p, TRUE)
    /\ UNCHANGED <<accountDb, invoiceDb, chargeDb, txnDb, now, bal, job, assigned>>

\* The cards are used by one process and belong to one account.
CardHolders == {"p1"}
CardAccounts == {"a1"}

NextCard ==
    \/ \E k \in CardIds, a \in CardAccounts, m \in ExpiryMonths, y \in ExpiryYears :
           CardCreate(k, a, m, y)
    \/ \E p \in CardHolders, k \in CardIds : CardGet(p, k)
    \/ \E p \in CardHolders : CardDeactivate(p)
    \/ \E p \in CardHolders : CardReactivate(p)
    \/ \E p \in CardHolders, m \in ExpiryMonths : CardSetMonth(p, m)
    \/ \E p \in CardHolders, y \in ExpiryYears : CardSetYear(p, y)
    \/ \E p \in CardHolders, asOf \in CardAsOfs : CardIsValid(p, asOf)
    \/ \E p \in CardHolders : CardSave(p)
    \/ \E p \in CardHolders : Release(p)

SpecCard == InitLedger /\ [][NextCard]_vars

\* C12: a card's expiry_date, on every stored row and on every instance a
\* caller holds, is the last day of the card's expiry month in year
\* 2000 + expiry_year, so is_valid(asOf) is true exactly when that last day
\* is on or after asOf.
C12_ExpiryDateNeverStale ==
    /\ \A k \in CardIds :
          IsCard(cardDb[k]) =>
              cardDb[k].expiry_date
                  = compute_expiry_date(cardDb[k].expiry_year, cardDb[k].expiry_month)
    /\ \A p \in Procs :
          HoldsCard(p) =>
              /\ inst[p].expiry_date
                     = compute_expiry_date(inst[p].expiry_year, inst[p].expiry_month)
              /\ \A asOf \in CardAsOfs :
                     CreditCard_is_valid(inst[p], asOf)
                         <=> compute_expiry_date(inst[p].expiry_year,
                                                 inst[p].expiry_month) >= asOf

\* C13: deactivate() succeeds exactly on an Active card instance and leaves it
\* Inactive; reactivate() succeeds exactly on an Inactive one and leaves it
\* Active; a refused call leaves the status as it was; a newly created card
\* is Active; every card's status is Active or Inactive.
C13_CardTransitions ==
    [][/\ \A p \in Procs :
            (HoldsCard(p) /\ last'.proc = p /\ last'.op \in {"deactivate", "reactivate"}) =>
                LET src == IF last'.op = "deactivate" THEN ACTIVE ELSE INACTIVE
                    dst == IF last'.op = "deactivate" THEN INACTIVE ELSE ACTIVE
                IN  /\ last'.ok <=> inst[p].status = src
                    /\ last'.ok => inst'[p].status = dst
                    /\ ~last'.ok => inst'[p].status = inst[p].status
       /\ \A p \in Procs : HoldsCard(p)' => inst'[p].status \in {ACTIVE, INACTIVE}
       /\ \A k \in CardIds :
            /\ cardDb'[k] # NoCard => cardDb'[k].status \in {ACTIVE, INACTIVE}
            /\ (cardDb[k] = NoCard /\ cardDb'[k] # NoCard) => cardDb'[k].status = ACTIVE
      ]_vars

\* deactivate() has just been refused on an instance that is already Inactive,
\* while the other card is stored Inactive after a deactivate() and a save().
C13_Witness ==
    /\ last = Op("deactivate", "p1", FALSE)
    /\ inst["p1"].kind = "card"
    /\ inst["p1"].status = INACTIVE
    /\ \E k \in CardIds : cardDb[k].status = INACTIVE

----------------------------------------------------------------------------
(* Charge validation: clean() and the creation of a charge through it.     *)
(* Model.save() does not call clean(); the caller that adds a charge runs  *)
(* the validation on the new instance and saves it only when it passes.    *)

\* The values callers give the two text fields: empty or filled.
AdHocLabels == {"", "Setup fee"}
ProductCodes == {"", "ABCD"}

\* clean() looking at the ad-hoc label alone.
Charge_clean_wrong(label, code) == label # ""

\* Charge.clean: ValidationError unless the label or the product code is
\* filled; TRUE when the instance passes.
Charge_clean(label, code) == label # "" \/ code # ""

\* Charge(account=a, amount=m, ad_hoc_label=label, product_code=code): an
\* instance not yet saved.
ChargeNew(p, a, m, label, code) ==
    /\ inst[p].kind = "none"
    /\ RecordsLeft
    /\ inst' = [inst EXCEPT ![p] =
                  [kind |-> "charge", id |-> 0, status |-> "unsaved",
                   account |-> a, amount |-> m.amount, currency |-> m.currency,
                   ad_hoc_label |-> label, product_code |-> code]]
    /\ last' = Op("charge_new", p, TRUE)
    /\ UNCHANGED <<cardDb, accountDb, invoiceDb, chargeDb, txnDb, now, bal, job, assigned>>

HoldsCharge(p) == inst[p].kind = "charge"

\* charge.clean() called on the instance.
ChargeClean(p) ==
    /\ HoldsCharge(p)
    /\ last' = Op("clean", p, Charge_clean(inst[p].ad_hoc_label, inst[p].product_code))
    /\ UNCHANGED <<cardDb, accountDb, invoiceDb, chargeDb, txnDb, now, inst, bal, job, assigned>>

\* The row save() writes for the instance.
ChargeRow(c) ==
    [account |-> c.account, amount |-> c.amount, currency |-> c.currency,
     created |-> now, invoice |-> Null,
     ad_hoc_label |-> c.ad_hoc_label, product_code |-> c.product_code]

\* Adding the charge: validation, then save().  A ValidationError goes to the
\* caller and nothing is written.
ChargeAdd(p) ==
    /\ HoldsCharge(p)
    /\ IF Charge_clean(inst[p].ad_hoc_label, inst[p].product_code)
       THEN /\ chargeDb' = Append(chargeDb, ChargeRow(inst[p]))
            /\ last' = Op("add_charge", p, TRUE)
       ELSE /\ last' = Op("add_charge", p, FALSE)
            /\ UNCHANGED chargeDb
    /\ inst' = [inst EXCEPT ![p] = NoInst]
    /\ UNCHANGED <<cardDb, accountDb, invoiceDb, txnDb, now, bal, job, assigned>>

\* Charges are added by one process.
ChargeAdders == {"p1"}

NextValidation ==
    \/ \E p \in ChargeAdders, a \in AccountIds, m \in InvoicingMonies,
          label \in AdHocLabels, code \in ProductCodes : ChargeNew(p, a, m, label, code)
    \/ \E p \in ChargeAdders : ChargeClean(p)
    \/ \E p \in ChargeAdders : ChargeAdd(p)

SpecValidation == InitLedger /\ [][NextValidation]_vars

BothEmpty(c) == c.ad_hoc_label = "" /\ c.product_code = ""

----------------------------------------------------------------------------
(* Accounts with children: charges, transactions, invoices and credit      *)
(* cards are created under the accounts while a caller closes, reopens and *)
(* saves them.                                                             *)

\* The card data of the children created here.
CascadeMonths == {12}
CascadeYears == {25}

\* Both accounts have charges; the transactions, invoices and cards are
\* those of one account.
ChildAccounts == {"a1"}

\* Accounts are closed and reopened by one process.
Closers == {"p1"}

NextCascade ==
    \/ \E a \in AccountIds, m \in InvoicingMonies : ChargeCreate(a, m)
    \/ \E a \in ChildAccounts, m \in InvoicingMonies : TransactionCreate(a, m, TRUE)
    \/ \E a \in ChildAccounts : InvoiceCreate(a)
    \/ \E k \in CardIds, a \in ChildAccounts, m \in CascadeMonths, y \in CascadeYears :
           CardCreate(k, a, m, y)
    \/ \E p \in Closers, a \in AccountIds : AccountGet(p, a)
    \/ \E p \in Closers : AccountClose(p)
    \/ \E p \in Closers : AccountReopen(p)
    \/ \E p \in Closers : AccountSave(p)
    \/ \E p \in Closers : Release(p)

SpecCascade == InitLedger /\ [][NextCascade]_vars

\* C17: a close(), a reopen() or the save() that stores its result changes
\* only the status of that account: every charge, transaction, invoice and
\* credit card is as before, the other accounts are as before, and every
\* account's balance(asOf) is the same for every asOf.
C17_CloseDoesNotCascade ==
    [][\A p \in Procs :
          (HoldsAccount(p) /\ last'.proc = p /\ last'.op \in {"close", "reopen", "save"}) =>
              /\ chargeDb' = chargeDb
              /\ txnDb' = txnDb
              /\ invoiceDb' = invoiceDb
              /\ cardDb' = cardDb
              /\ \A a \in AccountIds : a # inst[p].id => accountDb'[a] = accountDb[a]
              /\ accountDb'[inst[p].id].account = accountDb[inst[p].id].account
              /\ \A a \in AccountIds, asOf \in AsOfs :
                    BalanceOf(chargeDb', txnDb', a, asOf) = Account_balance(a, asOf)
      ]_vars

\* Account a1 has just been stored Closed while it has a charge, a successful
\* transaction, a Pending invoice and an Active credit card.
C17_Witness ==
    /\ last = Op("save", "p1", TRUE)
    /\ accountDb["a1"].status = CLOSED
    /\ \E c \in DOMAIN chargeDb : chargeDb[c].account = "a1"
    /\ \E t \in DOMAIN txnDb : txnDb[t].account = "a1" /\ txnDb[t].success
    /\ \E i \in InvoiceIds : invoiceDb[i].account = "a1" /\ invoiceDb[i].status = PENDING
    /\ \E k \in CardIds : cardDb[k].account = "a1" /\ cardDb[k].status = ACTIVE

----------------------------------------------------------------------------
(* Account.open: the manager of the Open accounts and its query            *)
(* with_uninvoiced_charges, over accounts that are closed and reopened     *)
(* while their charges are created and invoiced.                           *)

\* OnlyOpenAccountsManager.get_queryset: .filter(status=Account.OPEN)
OpenAccounts == {a \in AccountIds : IsRow(accountDb[a]) /\ accountDb[a].status = OPEN}

\* with_uninvoiced_charges: one filter() over the multi-valued relation
\* `charges` is an inner join of the accounts with their charges, with the
\* conditions on the joined charge row.  No distinct() follows, so the
\* queryset yields the account once per joined row: a row here is the pair
\* of the account and the charge it was joined with.
Account_open_with_uninvoiced_charges ==
    {r \in OpenAccounts \X DOMAIN chargeDb :
        chargeDb[r[2]].account = r[1] /\ chargeDb[r[2]].invoice = Null}

\* How many times the queryset yields account a.
TimesListed(a) ==
    Cardinality({r \in Account_open_with_uninvoiced_charges : r[1] = a})

Sweepers == {"p1"}
Managers == {"p2"}

NextSweep ==
    \/ \E a \in AccountIds, m \in InvoicingMonies : ChargeCreate(a, m)
    \/ \E p \in Sweepers, a \in AccountIds : InvoicingRead(p, a)
    \/ \E p \in Sweepers : InvoicingCreate(p)
    \/ \E p \in Sweepers, c \in DOMAIN chargeDb : InvoicingStamp(p, c)
    \/ \E p \in Sweepers : InvoicingFinish(p)
    \/ \E p \in Managers, a \in AccountIds : AccountGet(p, a)
    \/ \E p \in Managers : AccountClose(p)
    \/ \E p \in Managers : AccountReopen(p)
    \/ \E p \in Managers : AccountSave(p)
    \/ \E p \in Managers : Release(p)

SpecSweep == InitLedger /\ [][NextSweep]_vars

\* C18: Account.open.with_uninvoiced_charges() yields exactly the accounts
\* that are Open and have at least one charge with a null invoice reference,
\* each of them once.
C18_OpenWithUninvoicedCharges ==
    \A a \in AccountIds :
        TimesListed(a) =
            (IF /\ accountDb[a].status = OPEN
                /\ \E c \in DOMAIN chargeDb :
                      chargeDb[c].account = a /\ chargeDb[c].invoice = Null
             THEN 1 ELSE 0)

----------------------------------------------------------------------------
(* Invoice.total and the ledger of charges split between invoices.         *)

\* total() summing every charge of the invoice's account.
Invoice_total_wrong(i) ==
    total_amount(chargeDb, {c \in DOMAIN chargeDb : chargeDb[c].account = invoiceDb[i].account})

\* Invoice.total: total_amount(Charge.objects.filter(invoice=self))
Invoice_total(i) ==
    total_amount(chargeDb, {c \in DOMAIN chargeDb : chargeDb[c].invoice = i})

RECURSIVE InvoiceTotalsSum(_, _)
\* The amounts in currency cur of total() added up over the stored invoices
\* among the first n.
InvoiceTotalsSum(n, cur) ==
    IF n = 0 THEN 0
    ELSE InvoiceTotalsSum(n - 1, cur)
         + (IF IsRow(invoiceDb[n]) THEN TotalGet(Invoice_total(n), cur) ELSE 0)

\* Per currency: all charges = the invoices' totals + the uninvoiced charges.
LedgerIdentity ==
    \A cur \in Currencies :
        TotalGet(total_amount(chargeDb, DOMAIN chargeDb), cur)
            = InvoiceTotalsSum(MaxInvoices, cur)
              + TotalGet(total_amount(chargeDb,
                             {c \in DOMAIN chargeDb : chargeDb[c].invoice = Null}), cur)

\* C19: in every reachable state the Total of all charges equals, per
\* currency, the sum of total() over the invoices plus the Total of the
\* uninvoiced charges; and a step that assigns an invoice to a charge leaves
\* balance(asOf) of every account the same for every asOf.
C19_InvoicingPreservesLedger ==
    /\ []LedgerIdentity
    /\ [][(last'.op = "stamp" /\ chargeDb' # chargeDb) =>
             \A a \in AccountIds, asOf \in AsOfs :
                 BalanceOf(chargeDb', txnDb', a, asOf) = Account_balance(a, asOf)
         ]_vars

\* An invoice has just been assigned to a charge of 10 USD of a1, so that the
\* invoice totals {USD: 10}, while a charge of 5 EUR of a1 is still uninvoiced.
C19_Witness ==
    /\ last = Op("stamp", "p1", TRUE)
    /\ \E i \in InvoiceIds :
          /\ IsRow(invoiceDb[i])
          /\ invoiceDb[i].account = "a1"
          /\ TotalGet(Invoice_total(i), "USD") = 10
    /\ \E c \in DOMAIN chargeDb :
          /\ chargeDb[c].account = "a1"
          /\ chargeDb[c].invoice = Null
          /\ chargeDb[c].currency = "EUR"

----------------------------------------------------------------------------
(* The account of a charge and the account of its invoice.                 *)

\* The charges linked to the invoices of account a.
InvoicedChargesOf(a) ==
    {c \in DOMAIN chargeDb :
        /\ chargeDb[c].invoice # Null
        /\ invoiceDb[chargeDb[c].invoice].account = a}

\* C20: every charge linked to an invoice belongs to the account of that
\* invoice, and for each account the charges of its invoices together with its
\* uninvoiced charges are exactly the charges its balance counts, none of
\* them twice.
C20_ChargeAndInvoiceShareAccount ==
    /\ \A c \in DOMAIN chargeDb :
          chargeDb[c].invoice # Null =>
              /\ IsRow(invoiceDb[chargeDb[c].invoice])
              /\ invoiceDb[chargeDb[c].invoice].account = chargeDb[c].account
    /\ \A a \in AccountIds :
          LET uninvoiced == {c \in DOMAIN chargeDb :
                                chargeDb[c].account = a /\ chargeDb[c].invoice = Null}
          IN  /\ InvoicedChargesOf(a) \cup uninvoiced
                     = FilterAccount(chargeDb, ChargeIds(chargeDb), a, NoAsOf)
              /\ InvoicedChargesOf(a) \cap uninvoiced = {}

\* Each account has an invoice with a charge of its own linked to it.
C20_Witness ==
    \A a \in AccountIds :
        \E c \in DOMAIN chargeDb :
            /\ chargeDb[c].account = a
            /\ chargeDb[c].invoice # Null
            /\ invoiceDb[chargeDb[c].invoice].account = a

====
